---- MODULE Spec2Model ----
(***************************************************************************)
(* The DataManager engine (src/app/core/data_manager.py) and the staged    *)
(* descriptive-statistics pipeline that src/app/routes.py runs on a        *)
(* background thread.  Request handlers are atomic actions; the background *)
(* worker takes one step per progress write, so that every value written   *)
(* to stats_progress is a state of the model.  time.sleep and logging are  *)
(* left out; the Flask application context is taken to be available in the *)
(* worker thread.                                                          *)
(***************************************************************************)
EXTENDS Integers, Sequences, FiniteSets, TLC

\* ------------------------------------------------------------- bounds
MaxRuns == 2
MaxRows == 2
MaxSeries == 4

\* ------------------------------------------------------------- values
None == [none |-> TRUE]

Runs == 1..MaxRuns

\* The cells of a parsed file: a number, a missing value, a string.
Num(n) == [kind |-> "num", v |-> n]

NaN == [kind |-> "nan", v |-> 0]

Str == [kind |-> "str", v |-> 0]

\* The string cells the classifier is tried on, by their position in Tokens.
Tokens == <<"Yes", "No", "low", "high">>

Text(k) == [kind |-> "str", v |-> k]

\* A parsed CSV file: its header, its number of data rows and, per column,
\* the cells of the rows in file order.
CsvFiles ==
  { [columns |-> <<"a", "b">>, rows |-> MaxRows,
     values |-> [c \in {"a", "b"} |-> [i \in 1..MaxRows |-> Num(i)]]] }

\* A file that holds a header line and no data row.
HeaderOnlyFiles ==
  { [columns |-> <<"a">>, rows |-> 0, values |-> [c \in {"a"} |-> <<>>]] }

\* 100 rows, one numeric column: 1..95 and five values of 10000.
ScenarioA ==
  [columns |-> <<"x">>, rows |-> 100,
   values |-> [c \in {"x"} |-> [i \in 1..100 |-> IF i <= 95 THEN Num(i) ELSE Num(10000)]]]

\* 25 rows: age holds 1..22 and three values above 120; w holds 1..21, 33,
\* 1000 and two missing values; name holds strings.
ScenarioC ==
  [columns |-> <<"age", "w", "name">>, rows |-> 25,
   values |->
     [c \in {"age", "w", "name"} |->
        [i \in 1..25 |->
           IF c = "age" THEN (IF i <= 22 THEN Num(i) ELSE Num(100 * (i - 21)))
           ELSE IF c = "name" THEN Str
           ELSE IF i <= 21 THEN Num(i)
           ELSE IF i = 22 THEN Num(33)
           ELSE IF i = 23 THEN Num(1000)
           ELSE NaN]]]

FlagFiles == {ScenarioA, ScenarioC}

\* The load_data inputs that make pandas or the decoder raise.
LoadErrors ==
  { [error |-> e] : e \in {"empty", "parse_error", "decode_error", "no_source"} }

ColumnNames == {"a", "b", "zz"}

\* The DataFrame of a parsed file: ordered columns, the RangeIndex labels, the
\* cells by column and row label, and the dtype pandas infers for each column
\* (numeric when the column has rows and no string cell).
DataFrame(f) ==
  [columns |-> f.columns,
   index |-> [i \in 1..f.rows |-> i - 1],
   values |-> [c \in DOMAIN f.values |-> [l \in 0..(f.rows - 1) |-> f.values[c][l + 1]]],
   dtypes |-> [c \in DOMAIN f.values |->
                 IF f.rows > 0 /\ \A i \in 1..f.rows : f.values[c][i].kind /= "str"
                   THEN "numeric" ELSE "object"]]

Progress(p, t, c) == [percent |-> p, current_task |-> t, is_complete |-> c]

InitialProgress == Progress(0, "Not started", FALSE)

\* The handler's dictionary with the run left open.
ErrorProgressOpen == [error |-> "exception", is_complete |-> FALSE]

\* The dictionary the worker's exception handler stores.
ErrorProgress == [error |-> "exception", is_complete |-> TRUE]

LockedWrite == [op |-> "write", locked |-> TRUE]

UnlockedRead == [op |-> "read", locked |-> FALSE]

\* ------------------------------------------------------------- sequences
RECURSIVE SelectSeqBy(_, _)
SelectSeqBy(s, keep) ==
  IF s = <<>> THEN <<>>
  ELSE IF Head(s) \in keep THEN <<Head(s)>> \o SelectSeqBy(Tail(s), keep)
       ELSE SelectSeqBy(Tail(s), keep)

Range(s) == { s[i] : i \in DOMAIN s }

IndexOf(s, x) == CHOOSE i \in DOMAIN s : s[i] = x

\* ------------------------------------------------------------- classifiers
\* A pandas Series: its dtype and its cells in row order.
Series(dtype, cells) == [dtype |-> dtype, cells |-> cells]

\* series.dropna().unique()
UniqueVals(series) ==
  { series.cells[i] : i \in { j \in DOMAIN series.cells : series.cells[j].kind /= "nan" } }

\* series.nunique()
nunique(series) == Cardinality(UniqueVals(series))

\* str(v).lower().strip() of a string cell; a cell outside Tokens stands for a
\* string that none of the patterns matches.
StrVal(cell) ==
  IF cell.kind = "str" /\ cell.v \in DOMAIN Tokens
    THEN <<"yes", "no", "low", "high">>[cell.v]
    ELSE "other"

\* The ordinal_patterns of _is_ordinal that match a lower-cased token at all,
\* each as the set of tokens it matches: ^(low|medium|high|very high) and
\* ^(elementary|middle|high|college|graduate|post-graduate).
OrdinalPatterns == { {"low", "high"}, {"high"} }

\* _is_ordinal on a column read from CSV (never an ordered category dtype):
\* at least two distinct values, all matching one pattern. The unit, geography
\* and digit heuristics that follow need a digit or a place word in every value.
is_ordinal(series) ==
  LET str_vals == { StrVal(c) : c \in UniqueVals(series) }
  IN  /\ Cardinality(UniqueVals(series)) >= 2
      /\ \E pattern \in OrdinalPatterns : str_vals \subseteq pattern

\* _is_censored
is_censored(series) == FALSE

\* The number of distinct values from which a numeric column is NUMERIC.
DiscreteThreshold == 20

\* _determine_column_type; the result is the ColumnType member's value.
determine_column_type(series) ==
  IF series.dtype = "numeric"
    THEN (IF nunique(series) < DiscreteThreshold THEN "discrete" ELSE "numeric")
  ELSE IF series.dtype = "datetime" THEN "timeseries"
  ELSE IF nunique(series) = 2 THEN "boolean"
  ELSE IF is_ordinal(series) THEN "ordinal"
  ELSE IF is_censored(series) THEN "censored"
  ELSE "categorical"

\* _determine_distribution on a series whose skew() and kurtosis() are
\* skew10 / 10 and kurt10 / 10.
determine_distribution(skew10, kurt10) ==
  LET abs(x) == IF x < 0 THEN -x ELSE x
  IN  IF abs(skew10) < 5 /\ abs(kurt10) < 20 THEN "normal"
      ELSE IF skew10 > 10 THEN "right_skewed"
      ELSE IF skew10 < -10 THEN "left_skewed"
      ELSE IF kurt10 > 30 THEN "heavy_tailed"
      ELSE IF kurt10 < -10 THEN "light_tailed"
      ELSE "unknown"

\* The columns the classifier is tried on: text columns of up to MaxSeries
\* cells with missing values among them, numeric columns around the
\* threshold, a datetime column.
TextSeries ==
  { Series("object", cells) :
      cells \in UNION { [1..n -> {Text(k) : k \in DOMAIN Tokens} \cup {NaN}] :
                          n \in 0..MaxSeries } }

NumericSeries ==
  { Series("numeric", [i \in 1..n |-> Num(i)]) :
      n \in {1, DiscreteThreshold - 1, DiscreteThreshold, DiscreteThreshold + 1} }

DatetimeSeries == { Series("datetime", <<Num(1), Num(2)>>) }

\* Skewness and kurtosis in tenths, and the p-value in hundredths of a
\* normality test run on the same data.
Moments10 == {-35, -15, -7, 0, 1, 2, 7, 15, 35}

PValues100 == {1, 5, 90}

\* ------------------------------------------------------------- state
VARIABLES
  data,               \* self.data: None or the DataFrame
  point_flags,        \* self.point_flags: None or the rows x columns flag grid
  descriptive_stats,  \* self._descriptive_stats: None or the snapshot dict
  stats_progress,     \* self.stats_progress
  pc,                 \* position of each pipeline worker in calculate_stats
  stages,             \* the stage methods each worker has called, in order
  captured,           \* file_stats held in a worker's calculate_descriptive_stats frame
  written,            \* the percent each run wrote last (its start request included)
  run_completed,      \* a run has reached 'Complete' since the last reset or load
  progress_access,    \* the last access to stats_progress and whether it held the lock
  response            \* the JSON response of the last flag or column-deletion request

vars == <<data, point_flags, descriptive_stats, stats_progress, pc, stages,
          captured, written, run_completed, progress_access, response>>

\* ------------------------------------------------------------- columns of the frame
\* The cell of column c in the i-th row of the frame (grid row i).
Cell(d, c, i) == d.values[c][d.index[i]]

FrameRows(d) == 1..Len(d.index)

\* The k-th smallest value of column c over the given rows (k from 1).
KthSmallest(d, c, rows, k) ==
  CHOOSE v \in { Cell(d, c, i).v : i \in rows } :
    /\ Cardinality({ i \in rows : Cell(d, c, i).v < v }) < k
    /\ Cardinality({ i \in rows : Cell(d, c, i).v <= v }) >= k

\* Four times col_data.quantile(quarters / 4): linear interpolation between
\* the two order statistics around position (n - 1) * quarters / 4.
Quantile4(d, c, rows, quarters) ==
  LET pos4 == quarters * (Cardinality(rows) - 1)
      lo == pos4 \div 4
      frac4 == pos4 % 4
      a == KthSmallest(d, c, rows, lo + 1)
  IN  IF frac4 = 0 THEN 4 * a
      ELSE 4 * a + frac4 * (KthSmallest(d, c, rows, lo + 2) - a)

\* A comparison that counts every cell not inside the bounds, missing or not.
OutsideNotBetween(cell, lower8, upper8) ==
  ~ (cell.kind = "num" /\ lower8 <= 8 * cell.v /\ 8 * cell.v <= upper8)

\* (col_data < lower_bound) | (col_data > upper_bound), and not missing; the
\* bounds are given times 8.  A comparison with a missing value is False.
Outside(cell, lower8, upper8) ==
  /\ cell.kind = "num"
  /\ (8 * cell.v < lower8 \/ 8 * cell.v > upper8)

\* self.data[col] as a Series.
ColumnSeries(d, c) == Series(d.dtypes[c], [i \in FrameRows(d) |-> Cell(d, c, i)])

\* The rows of self.data[col].dropna().
NonNullRows(d, c) == { i \in FrameRows(d) : Cell(d, c, i).kind /= "nan" }

\* outlier_count > 0 in calculate_descriptive_stats and detect_outliers: a
\* non-missing value below q1 - 1.5 * iqr or above q3 + 1.5 * iqr; the sample
\* and the two quartiles are each computed once.
HasIQROutliers(d, c) ==
  \E rows \in {NonNullRows(d, c)} :
    \E q1 \in {Quantile4(d, c, rows, 1)}, q3 \in {Quantile4(d, c, rows, 3)} :
      \E i \in rows :
        Outside(Cell(d, c, i), 2 * q1 - 3 * (q3 - q1), 2 * q3 + 3 * (q3 - q1))

\* ------------------------------------------------------------- snapshot
\* The keys calculate_descriptive_stats stores in _descriptive_stats.
FullKeys ==
  {"file_stats", "column_types", "data_quality", "missing_values_by_column",
   "distribution_analysis", "outlier_info", "categorical_stats", "boolean_stats",
   "datetime_stats", "ordinal_stats", "validation_results"}

\* The empty dict the stage methods create when no snapshot exists.
EmptyStats ==
  [keys |-> {}, file_stats |-> None, column_types |-> None,
   distribution_analysis |-> {}, outlier_info |-> {}]

\* get_file_statistics / the file_stats entry: counts of the DataFrame as it is now.
FileStats(d) == [rows |-> Len(d.index), columns |-> Len(d.columns)]

\* The per-type counts calculate_descriptive_stats stores in column_types.
AllTypeCounts == {"numeric", "categorical", "boolean", "datetime", "ordinal", "discrete"}

\* The per-type counts analyze_column_types and update_descriptive_stats store.
FourTypeCounts == {"numeric", "categorical", "boolean", "datetime"}

\* A ColumnType member as an element of column_types_list; it equals none of
\* the strings the counts compare it with.
Member(t) ==
  CASE t = "numeric" -> "ColumnType.NUMERIC"
    [] t = "categorical" -> "ColumnType.CATEGORICAL"
    [] t = "boolean" -> "ColumnType.BOOLEAN"
    [] t = "timeseries" -> "ColumnType.TIMESERIES"
    [] t = "discrete" -> "ColumnType.DISCRETE"
    [] t = "ordinal" -> "ColumnType.ORDINAL"
    [] t = "censored" -> "ColumnType.CENSORED"

\* The type string a count key is compared with.
CountedType(k) == IF k = "datetime" THEN "timeseries" ELSE k

\* The column_types entry: the column list, column_types_list and its length,
\* whether the list was written as ColumnType members ("enum") or as their
\* string values, and the per-type counts: for every key the number of list
\* elements equal to the key's type string.
ColumnTypes(cols, types, form, counts) ==
  [columns |-> cols, ntypes |-> Len(types), types |-> types, form |-> form,
   counts |-> [k \in counts |->
                 Cardinality({ i \in DOMAIN types : types[i] = CountedType(k) })]]

get_column_descriptive_stats == descriptive_stats

\* self.metadata: neither __init__ nor reset nor load_data assigns an attribute
\* of that name (the statistics live in _descriptive_stats), so reading it
\* raises.
metadata ==
  [type |-> "AttributeError",
   message |-> "'DataManager' object has no attribute 'metadata'"]

\* _validate_data indexes the existing snapshot by every column of the data.
ValidateRaises(d, snap) ==
  /\ d /= None
  /\ snap /= None
  /\ Len(d.columns) > 0
  /\ \/ "column_types" \notin snap.keys
     \/ snap.column_types.ntypes < Len(d.columns)
     \/ "missing_values_by_column" \notin snap.keys

\* The quality_metrics block: _check_consistency divides by the number of
\* columns, _assess_accuracy calls _validate_data.
QualityRaises(d, snap) ==
  \/ d = None
  \/ Len(d.columns) = 0
  \/ ValidateRaises(d, snap)

\* The dict calculate_descriptive_stats assigns: file_stats as computed at the
\* top of the method, the column list as read when the dict is built.
StoredStats(fs, d) ==
  [keys |-> FullKeys, file_stats |-> [rows |-> fs.rows, columns |-> fs.columns],
   column_types |-> ColumnTypes(d.columns, fs.types, "str", AllTypeCounts),
   distribution_analysis |-> fs.distribution_analysis,
   outlier_info |-> fs.outlier_info]

\* The per-column loops of calculate_descriptive_stats on a column_types_list
\* pre-allocated for n columns: the type of every column (an element no loop
\* reaches stays None), a distribution_analysis entry for every numeric column
\* with a non-missing value, an outlier_info entry for those with outliers.
ColumnStatistics(d, n) ==
  LET numeric_cols ==
        { c \in Range(d.columns) : d.dtypes[c] = "numeric" /\ NonNullRows(d, c) /= {} }
  IN  [types |-> [i \in 1..n |->
                    IF i <= Len(d.columns)
                      THEN determine_column_type(ColumnSeries(d, d.columns[i]))
                      ELSE "None"],
       distribution_analysis |-> numeric_cols,
       outlier_info |-> { c \in numeric_cols : HasIQROutliers(d, c) }]

\* What calculate_descriptive_stats holds in its local variables when it
\* builds the dict: file_stats and the results of the per-column loops.
CalcFrame(fs, cs) ==
  [rows |-> fs.rows, columns |-> fs.columns, types |-> cs.types,
   distribution_analysis |-> cs.distribution_analysis, outlier_info |-> cs.outlier_info]

\* calculate_descriptive_stats run without interruption (from load_data, the
\* stats route and update_descriptive_stats).
calculate_descriptive_stats(d, snap, prog) ==
  IF d = None
    THEN [raised |-> FALSE, stats |-> snap, progress |-> prog]
  ELSE IF QualityRaises(d, snap)
    THEN [raised |-> TRUE, stats |-> snap,
          progress |-> Progress(87, "Analyzing data quality...", FALSE)]
  ELSE [raised |-> FALSE,
        stats |-> StoredStats(CalcFrame(FileStats(d), ColumnStatistics(d, Len(d.columns))), d),
        progress |-> Progress(95, "Finalizing calculations...", FALSE)]

\* ------------------------------------------------------------- flag grid
\* A flag grid: its numpy shape and one DataPointFlag per cell.
FlagGrid(nr, nc, f) == [nrows |-> nr, ncols |-> nc, cells |-> f]

\* _initialize_point_flags: np.full(self.data.shape, NORMAL).
NormalGrid(d) ==
  FlagGrid(Len(d.index), Len(d.columns),
           [rc \in (1..Len(d.index)) \X (1..Len(d.columns)) |-> "NORMAL"])

\* point_flags[:, idx]
SliceColumns(g, idx) ==
  FlagGrid(g.nrows, Len(idx),
           [rc \in (1..g.nrows) \X (1..Len(idx)) |-> g.cells[<<rc[1], idx[rc[2]]>>]])

\* ------------------------------------------------------------- update_descriptive_stats
\* The first positions of the grid, one per remaining column.
RemainingIndicesFromLeft(old, current) ==
  LET kept == SelectSeqBy(current, Range(old))
  IN  [i \in 1..Len(kept) |-> i]

\* Positions, in the snapshot's old column list, of the columns that remain.
RemainingIndices(old, current) ==
  LET kept == SelectSeqBy(current, Range(old))
  IN  [i \in 1..Len(kept) |-> IndexOf(old, kept[i])]

\* The type update_descriptive_stats gives a column its snapshot does not know.
PatchType(series) ==
  IF series.dtype = "numeric"
    THEN (IF nunique(series) < DiscreteThreshold THEN "discrete" ELSE "numeric")
  ELSE IF series.dtype = "datetime" THEN "timeseries"
  ELSE IF nunique(series) = 2 THEN "boolean"
  ELSE "categorical"

\* remaining_types: for every current column the type dict(zip(old_columns,
\* old_types)) holds for it, else PatchType.
RemainingTypes(d, snap) ==
  LET old_columns == snap.column_types.columns
      old_types == snap.column_types.types
      zipped == { j \in DOMAIN old_columns : j <= Len(old_types) }
  IN  [i \in 1..Len(d.columns) |->
         IF \E j \in zipped : old_columns[j] = d.columns[i]
           THEN old_types[CHOOSE j \in zipped : old_columns[j] = d.columns[i]]
           ELSE PatchType(ColumnSeries(d, d.columns[i]))]

update_descriptive_stats(d, snap, flags, prog) ==
  IF d = None \/ snap = None
    THEN LET c == calculate_descriptive_stats(d, snap, prog)
         IN  [raised |-> c.raised, stats |-> c.stats, flags |-> flags,
              progress |-> c.progress]
  ELSE IF "file_stats" \notin snap.keys
    THEN [raised |-> TRUE, stats |-> snap, flags |-> flags, progress |-> prog]
  ELSE LET s1 == [snap EXCEPT !.file_stats = FileStats(d)]
       IN
       IF "column_types" \notin snap.keys
         THEN [raised |-> TRUE, stats |-> s1, flags |-> flags, progress |-> prog]
       ELSE
         LET old == snap.column_types.columns
             t2 == [s1 EXCEPT !.column_types =
                      ColumnTypes(d.columns, RemainingTypes(d, snap),
                                  snap.column_types.form, FourTypeCounts)]
             s2 == [t2 EXCEPT
                      !.distribution_analysis =
                        IF {"missing_values_by_column", "distribution_analysis"}
                             \subseteq snap.keys
                          THEN @ \cap Range(d.columns) ELSE @,
                      !.outlier_info =
                        IF {"missing_values_by_column", "distribution_analysis",
                            "outlier_info"} \subseteq snap.keys
                          THEN @ \cap Range(d.columns) ELSE @]
             idx == RemainingIndices(old, d.columns)
         IN
         IF ~ ({"missing_values_by_column", "distribution_analysis", "outlier_info",
                "categorical_stats", "boolean_stats", "datetime_stats"} \subseteq snap.keys)
           THEN [raised |-> TRUE, stats |-> s2, flags |-> flags, progress |-> prog]
         ELSE IF flags /= None /\ \E i \in DOMAIN idx : idx[i] > flags.ncols
           THEN [raised |-> TRUE, stats |-> s2, flags |-> flags, progress |-> prog]
         ELSE
           LET f2 == IF flags = None THEN flags ELSE SliceColumns(flags, idx)
               s3 == [s2 EXCEPT !.keys = @ \cup {"data_quality", "validation_results"}]
           IN  IF QualityRaises(d, s2)
                 THEN [raised |-> TRUE, stats |-> s2, flags |-> f2, progress |-> prog]
                 ELSE [raised |-> FALSE, stats |-> s3, flags |-> f2, progress |-> prog]

\* ------------------------------------------------------------- stage methods
\* analyze_column_types: iterates self.data.columns, then creates the dict if
\* there is none and stores the column_types entry (a list of ColumnType members).
analyze_column_types(d, snap) ==
  IF d = None
    THEN [raised |-> TRUE, stats |-> snap]
    ELSE [raised |-> FALSE,
          stats |-> [(IF snap = None THEN EmptyStats ELSE snap) EXCEPT
                       !.keys = @ \cup {"column_types"},
                       !.column_types =
                         ColumnTypes(d.columns,
                                     [i \in 1..Len(d.columns) |->
                                        Member(determine_column_type(
                                                 ColumnSeries(d, d.columns[i])))],
                                     "enum", FourTypeCounts)]]

\* The shape shared by calculate_basic_stats, analyze_distributions and
\* detect_outliers: create the dict if there is none, read
\* column_types.column_types_list by the position of every column, store newkeys.
StageBody(d, snap, newkeys) ==
  LET s1 == IF snap = None THEN EmptyStats ELSE snap
      raised ==
        \/ d = None
        \/ /\ Len(d.columns) > 0
           /\ \/ "column_types" \notin s1.keys
              \/ s1.column_types.ntypes < Len(d.columns)
  IN  [raised |-> raised,
       stats |-> IF raised THEN s1 ELSE [s1 EXCEPT !.keys = @ \cup newkeys]]

\* The columns a stage method takes for numeric: those whose element of
\* column_types_list, at the column's position, is in ['numeric', 'discrete'],
\* and that have a non-missing value.
StageNumericColumns(d, snap) ==
  { c \in Range(d.columns) :
      /\ snap.column_types.types[IndexOf(d.columns, c)] \in {"numeric", "discrete"}
      /\ NonNullRows(d, c) /= {} }

calculate_basic_stats(d, snap) ==
  LET b == StageBody(d, snap, {"missing_values_by_column", "distribution_analysis"})
  IN  IF b.raised THEN b
      ELSE [b EXCEPT !.stats.distribution_analysis = StageNumericColumns(d, b.stats)]

analyze_distributions(d, snap) ==
  StageBody(d, snap, {"categorical_stats", "boolean_stats", "datetime_stats"})

detect_outliers(d, snap) ==
  LET b == StageBody(d, snap, {"outlier_info"})
  IN  IF b.raised THEN b
      ELSE [b EXCEPT !.stats.outlier_info =
                       { c \in StageNumericColumns(d, b.stats) : HasIQROutliers(d, c) }]

\* ------------------------------------------------------------- the worker's program
\* A progress call that reports five points less than the route passes.
WriteEarly(p, t) ==
  [op |-> "update_progress", stage |-> "", percent |-> p - 5, task |-> t]

\* A route-level update_progress(p, t) call of calculate_stats.
Write(p, t) == [op |-> "update_progress", stage |-> "", percent |-> p, task |-> t]

Enter(stage, p, t) == [op |-> "enter", stage |-> stage, percent |-> p, task |-> t]

Body(op, p, t) == [op |-> op, stage |-> "", percent |-> p, task |-> t]

\* calculate_stats, one instruction per progress write: the route's own
\* update_progress calls, and for every stage method its entry (the data check
\* and the first write) and its body up to the next write.
Program ==
  << Write(15, "Analyzing column types..."),
     Enter("analyze_column_types", 15, "Analyzing column types..."),
     Body("analyze_column_types", 20, "Column types analyzed"),
     Write(20, "Column types analyzed"),
     Write(30, "Calculating basic statistics..."),
     Enter("calculate_basic_stats", 30, "Calculating basic statistics..."),
     Body("calculate_basic_stats", 40, "Basic statistics calculated"),
     Write(40, "Basic statistics calculated"),
     Write(50, "Analyzing distributions..."),
     Enter("analyze_distributions", 50, "Analyzing distributions..."),
     Body("analyze_distributions", 60, "Distribution analysis complete"),
     Write(60, "Distribution analysis complete"),
     Write(70, "Detecting outliers..."),
     Enter("detect_outliers", 70, "Detecting outliers..."),
     Body("detect_outliers", 80, "Outlier detection complete"),
     Write(80, "Outlier detection complete"),
     Write(85, "Processing column metadata..."),
     Write(87, "Analyzing data quality..."),
     Write(90, "Calculating column statistics..."),
     Write(93, "Processing categorical data..."),
     Write(95, "Finalizing calculations..."),
     Enter("calculate_descriptive_stats", 85, "Processing column metadata..."),
     Body("file_stats", 87, "Analyzing data quality..."),
     Body("quality_metrics", 90, "Calculating column statistics..."),
     Body("column_statistics", 93, "Processing categorical data..."),
     Body("store", 95, "Finalizing calculations..."),
     [op |-> "complete", stage |-> "", percent |-> 100, task |-> "Complete"] >>

\* The five stage methods in the order calculate_stats calls them.
StageOrder ==
  << "analyze_column_types", "calculate_basic_stats", "analyze_distributions",
     "detect_outliers", "calculate_descriptive_stats" >>

NotStarted == 0

Done == Len(Program) + 1

Failed == Len(Program) + 2

Active(r) == pc[r] \in 1..Len(Program)

\* Where a stage method's early return (self.data is None) lands: the
\* route's next update_progress call.
ReturnTarget(i) ==
  CHOOSE j \in (i + 1)..Len(Program) :
    /\ Program[j].op \in {"update_progress", "complete"}
    /\ \A k \in (i + 1)..(j - 1) : Program[k].op \notin {"update_progress", "complete"}

\* What a run has called so far: the first k stages, in the route's order.
StagePrefixes == { SubSeq(StageOrder, 1, k) : k \in 0..Len(StageOrder) }

\* The route's progress call that follows the k-th stage's return.
StageEnd ==
  [k \in 1..Len(StageOrder) |->
     ReturnTarget(CHOOSE i \in DOMAIN Program :
                    Program[i].op = "enter" /\ Program[i].stage = StageOrder[k])]

\* ------------------------------------------------------------- worker steps
\* One step of a stage method or of calculate_descriptive_stats: on success
\* the method's next update_progress; on an exception the handler of
\* calculate_stats replaces stats_progress under the lock and the thread ends.
Step(r, raised, stats, cap) ==
  /\ descriptive_stats' = stats
  /\ captured' = [captured EXCEPT ![r] = IF raised THEN None ELSE cap]
  /\ stats_progress' =
       IF raised THEN ErrorProgress
       ELSE Progress(Program[pc[r]].percent, Program[pc[r]].task, FALSE)
  /\ written' = [written EXCEPT ![r] = IF raised THEN @ ELSE Program[pc[r]].percent]
  /\ pc' = [pc EXCEPT ![r] = IF raised THEN Failed ELSE @ + 1]
  /\ progress_access' = LockedWrite
  /\ UNCHANGED <<data, point_flags, stages, run_completed, response>>

\* dm.update_progress(percent, task) in calculate_stats.
WorkerProgress(r) ==
  /\ Active(r)
  /\ Program[pc[r]].op = "update_progress"
  /\ stats_progress' = Progress(Program[pc[r]].percent, Program[pc[r]].task, FALSE)
  /\ written' = [written EXCEPT ![r] = Program[pc[r]].percent]
  /\ pc' = [pc EXCEPT ![r] = @ + 1]
  /\ progress_access' = LockedWrite
  /\ UNCHANGED <<data, point_flags, descriptive_stats, stages, captured,
                 run_completed, response>>

\* The call of a stage method: return at once when no data is loaded, else
\* the method's first update_progress.
StageEnter(r) ==
  /\ Active(r)
  /\ Program[pc[r]].op = "enter"
  /\ stages' = [stages EXCEPT ![r] = Append(@, Program[pc[r]].stage)]
  /\ IF data = None
       THEN /\ pc' = [pc EXCEPT ![r] = ReturnTarget(pc[r])]
            /\ UNCHANGED <<stats_progress, written, progress_access>>
       ELSE /\ pc' = [pc EXCEPT ![r] = @ + 1]
            /\ stats_progress' =
                 Progress(Program[pc[r]].percent, Program[pc[r]].task, FALSE)
            /\ written' = [written EXCEPT ![r] = Program[pc[r]].percent]
            /\ progress_access' = LockedWrite
  /\ UNCHANGED <<data, point_flags, descriptive_stats, captured,
                 run_completed, response>>

AnalyzeColumnTypes(r) ==
  /\ Active(r)
  /\ Program[pc[r]].op = "analyze_column_types"
  /\ LET res == analyze_column_types(data, descriptive_stats)
     IN  Step(r, res.raised, res.stats, None)

CalculateBasicStats(r) ==
  /\ Active(r)
  /\ Program[pc[r]].op = "calculate_basic_stats"
  /\ LET res == calculate_basic_stats(data, descriptive_stats)
     IN  Step(r, res.raised, res.stats, None)

AnalyzeDistributions(r) ==
  /\ Active(r)
  /\ Program[pc[r]].op = "analyze_distributions"
  /\ LET res == analyze_distributions(data, descriptive_stats)
     IN  Step(r, res.raised, res.stats, None)

DetectOutliers(r) ==
  /\ Active(r)
  /\ Program[pc[r]].op = "detect_outliers"
  /\ LET res == detect_outliers(data, descriptive_stats)
     IN  Step(r, res.raised, res.stats, None)

\* calculate_descriptive_stats: column_types_list is pre-allocated and
\* file_stats computed from the data as it is now.
CalcFileStats(r) ==
  /\ Active(r)
  /\ Program[pc[r]].op = "file_stats"
  /\ Step(r, data = None, descriptive_stats,
          IF data = None THEN None ELSE FileStats(data))

\* calculate_descriptive_stats: the quality_metrics block.
CalcQualityMetrics(r) ==
  /\ Active(r)
  /\ Program[pc[r]].op = "quality_metrics"
  /\ Step(r, QualityRaises(data, descriptive_stats), descriptive_stats, captured[r])

\* calculate_descriptive_stats: the per-column loops, which write
\* column_types_list at the position of every column.
CalcColumnStatistics(r) ==
  /\ Active(r)
  /\ Program[pc[r]].op = "column_statistics"
  /\ Step(r, data = None \/ Len(data.columns) > captured[r].columns,
          descriptive_stats,
          CalcFrame(captured[r], ColumnStatistics(data, captured[r].columns)))

\* calculate_descriptive_stats: the assignment of self._descriptive_stats.
CalcStore(r) ==
  /\ Active(r)
  /\ Program[pc[r]].op = "store"
  /\ LET raised == data = None \/ ValidateRaises(data, descriptive_stats)
     IN  Step(r, raised,
              IF raised THEN descriptive_stats ELSE StoredStats(captured[r], data),
              None)

\* dm.update_progress(100, 'Complete', True): the worker's last statement.
WorkerComplete(r) ==
  /\ Active(r)
  /\ Program[pc[r]].op = "complete"
  /\ stats_progress' = Progress(100, "Complete", TRUE)
  /\ written' = [written EXCEPT ![r] = 100]
  /\ pc' = [pc EXCEPT ![r] = Done]
  /\ run_completed' = TRUE
  /\ progress_access' = LockedWrite
  /\ UNCHANGED <<data, point_flags, descriptive_stats, stages, captured, response>>

\* ------------------------------------------------------------- request handlers
\* GET /api/start-descriptive-stats: refused only when no data is loaded; the
\* thread of run r starts whatever the earlier runs are doing.
start_descriptive_stats_ok(d) == d /= None

StartDescriptiveStats(r) ==
  /\ pc[r] = NotStarted
  /\ \A q \in Runs : q < r => pc[q] /= NotStarted
  /\ start_descriptive_stats_ok(data)
  /\ pc' = [pc EXCEPT ![r] = 1]
  /\ stats_progress' = Progress(5, "Starting analysis...", FALSE)
  /\ written' = [written EXCEPT ![r] = 5]
  /\ progress_access' = LockedWrite
  /\ UNCHANGED <<data, point_flags, descriptive_stats, stages, captured,
                 run_completed, response>>

\* DataManager.reset (also POST /api/reset).
Reset ==
  /\ data' = None
  /\ point_flags' = None
  /\ descriptive_stats' = None
  /\ stats_progress' = InitialProgress
  /\ run_completed' = FALSE
  /\ progress_access' = LockedWrite
  /\ UNCHANGED <<pc, stages, captured, written, response>>

\* load_data without its call of calculate_descriptive_stats.
load_data_without_stats(src) ==
  IF src \in LoadErrors
    THEN [ok |-> FALSE, data |-> None, flags |-> None, stats |-> None,
          progress |-> InitialProgress]
  ELSE IF src.rows = 0
    THEN [ok |-> FALSE, data |-> DataFrame(src), flags |-> None, stats |-> None,
          progress |-> InitialProgress]
  ELSE [ok |-> TRUE, data |-> DataFrame(src),
        flags |-> NormalGrid(DataFrame(src)), stats |-> None,
        progress |-> InitialProgress]

\* The engine after load_data(src): reset first, then read, validate,
\* initialise the flags and calculate the statistics; ok is the first
\* component of the returned tuple.
load_data(src) ==
  IF src \in LoadErrors
    THEN [ok |-> FALSE, data |-> None, flags |-> None, stats |-> None,
          progress |-> InitialProgress]
  ELSE IF src.rows = 0
    THEN [ok |-> FALSE, data |-> DataFrame(src), flags |-> None, stats |-> None,
          progress |-> InitialProgress]
  ELSE LET c == calculate_descriptive_stats(DataFrame(src), None, InitialProgress)
       IN  [ok |-> ~ c.raised, data |-> DataFrame(src),
            flags |-> NormalGrid(DataFrame(src)), stats |-> c.stats,
            progress |-> c.progress]

\* load_data resets the engine first, so what it leaves behind depends on its
\* input alone: the outcome of load_data for every input the requests draw.
LoadResults ==
  [src \in CsvFiles \cup HeaderOnlyFiles \cup FlagFiles \cup LoadErrors |-> load_data(src)]

LoadData(src) ==
  /\ LET res == LoadResults[src]
     IN  /\ data' = res.data
         /\ point_flags' = res.flags
         /\ descriptive_stats' = res.stats
         /\ stats_progress' = res.progress
  /\ run_completed' = FALSE
  /\ progress_access' = LockedWrite
  /\ UNCHANGED <<pc, stages, captured, written, response>>

\* The flag_counts block of the stats route indexes point_flags by the
\* position of every column of the data.
FlagCountsRaises(d, flags) ==
  /\ Len(d.columns) > 0
  /\ \/ flags = None
     \/ flags.ncols < Len(d.columns)

\* GET /api/descriptive-stats with data loaded.
get_descriptive_stats(d, snap, flags) ==
  LET c == IF snap = None
             THEN calculate_descriptive_stats(d, snap,
                    Progress(97, "Processing column statistics...", FALSE))
             ELSE [raised |-> FALSE, stats |-> snap, progress |-> None]
  IN  IF c.raised \/ (c.stats /= None /\ FlagCountsRaises(d, flags))
        THEN [ok |-> FALSE, stats |-> c.stats, progress |-> Progress(100, "Error", TRUE)]
      ELSE IF c.stats = None
        THEN [ok |-> FALSE, stats |-> c.stats,
              progress |-> Progress(100, "Complete", TRUE)]
      ELSE [ok |-> TRUE, stats |-> [c.stats EXCEPT !.keys = @ \cup {"flag_counts"}],
            progress |-> Progress(100, "Complete", TRUE)]

GetDescriptiveStats ==
  /\ data /= None
  /\ LET res == get_descriptive_stats(data, descriptive_stats, point_flags)
     IN  /\ descriptive_stats' = res.stats
         /\ stats_progress' = res.progress
  /\ progress_access' = LockedWrite
  /\ UNCHANGED <<data, point_flags, pc, stages, captured, written, run_completed,
                 response>>

\* The response of GET /api/descriptive-stats-progress for a progress dict.
ProgressResponse(progress) ==
  IF "error" \in DOMAIN progress
    THEN [success |-> FALSE, status |-> "500", error |-> progress.error]
  ELSE IF {"percent", "current_task", "is_complete"} \subseteq DOMAIN progress
    THEN [success |-> TRUE, status |-> "200", progress |-> progress]
  ELSE [success |-> FALSE, status |-> "500", error |-> "KeyError"]

\* GET /api/descriptive-stats-progress: reads stats_progress without the lock.
GetDescriptiveStatsProgress ==
  /\ progress_access' = UnlockedRead
  /\ UNCHANGED <<data, point_flags, descriptive_stats, stats_progress, pc, stages,
                 captured, written, run_completed, response>>

\* DataManager.delete_columns on the engine state; ok is the first component
\* of the returned tuple.
\* delete_columns as DataFrame.drop(errors='ignore') would do it: names that
\* are not columns are skipped and the others are dropped.
delete_columns_ignoring_unknown(names, d, snap, flags, prog) ==
  IF d = None
    THEN [ok |-> FALSE, data |-> d, stats |-> snap, flags |-> flags, progress |-> prog]
  ELSE LET remaining_columns == Range(d.columns) \ names
           d2 == [d EXCEPT !.columns = SelectSeqBy(@, remaining_columns),
                           !.values = [c \in remaining_columns |-> @[c]],
                           !.dtypes = [c \in remaining_columns |-> @[c]]]
           u == update_descriptive_stats(d2, snap, flags, prog)
       IN  [ok |-> ~ u.raised, data |-> d2, stats |-> u.stats, flags |-> u.flags,
            progress |-> u.progress]

delete_columns(names, d, snap, flags, prog) ==
  IF d = None \/ names \ Range(d.columns) /= {}
    THEN [ok |-> FALSE, data |-> d, stats |-> snap, flags |-> flags, progress |-> prog]
  ELSE LET remaining_columns == Range(d.columns) \ names
           d2 == [d EXCEPT !.columns = SelectSeqBy(@, remaining_columns),
                           !.values = [c \in remaining_columns |-> @[c]],
                           !.dtypes = [c \in remaining_columns |-> @[c]]]
           u == update_descriptive_stats(d2, snap, flags, prog)
       IN  [ok |-> ~ u.raised, data |-> d2, stats |-> u.stats, flags |-> u.flags,
            progress |-> u.progress]

DeleteColumns(names) ==
  /\ LET res == delete_columns(names, data, descriptive_stats, point_flags,
                               stats_progress)
     IN  /\ data' = res.data
         /\ descriptive_stats' = res.stats
         /\ point_flags' = res.flags
         /\ stats_progress' = res.progress
         /\ progress_access' =
              IF res.progress /= stats_progress THEN LockedWrite ELSE progress_access
  /\ UNCHANGED <<pc, stages, captured, written, run_completed, response>>

\* POST /api/delete-columns-at-start with the JSON list names: refused when no
\* data is loaded or the list is empty, else the outcome of delete_columns.
DeleteColumnsAtStart(names) ==
  /\ IF data = None \/ names = {}
       THEN /\ response' = [op |-> "delete_columns", columns |-> names,
                             success |-> FALSE, status |-> "400"]
            /\ UNCHANGED <<data, descriptive_stats, point_flags, stats_progress,
                           progress_access>>
       ELSE LET res == delete_columns(names, data, descriptive_stats, point_flags,
                                      stats_progress)
            IN  /\ data' = res.data
                /\ descriptive_stats' = res.stats
                /\ point_flags' = res.flags
                /\ stats_progress' = res.progress
                /\ progress_access' =
                     IF res.progress /= stats_progress THEN LockedWrite
                     ELSE progress_access
                /\ response' = [op |-> "delete_columns", columns |-> names,
                                 success |-> res.ok,
                                 status |-> IF res.ok THEN "200" ELSE "400"]
  /\ UNCHANGED <<pc, stages, captured, written, run_completed>>

\* A call of _determine_column_type on a column.
DetermineColumnType(series) ==
  /\ response' = [op |-> "determine_column_type", series |-> series,
                   result |-> determine_column_type(series)]
  /\ UNCHANGED <<data, point_flags, descriptive_stats, stats_progress, pc, stages,
                 captured, written, run_completed, progress_access>>

\* A call of _determine_distribution on data with the given moments, for
\* which a normality test would report p100 / 100.
DetermineDistribution(skew10, kurt10, p100) ==
  /\ response' = [op |-> "determine_distribution", skew10 |-> skew10,
                   kurt10 |-> kurt10, p100 |-> p100,
                   result |-> determine_distribution(skew10, kurt10)]
  /\ UNCHANGED <<data, point_flags, descriptive_stats, stats_progress, pc, stages,
                 captured, written, run_completed, progress_access>>

\* DataManager.delete_row on the DataFrame: the row is dropped by its index
\* label, then self._update_metadata is called, which DataManager does not
\* define, so every call that drops a row returns failure.
delete_row(row_index, d) ==
  IF d = None THEN [ok |-> FALSE, data |-> d]
  ELSE IF row_index < 0 \/ row_index >= Len(d.index) THEN [ok |-> FALSE, data |-> d]
  ELSE IF row_index \notin Range(d.index) THEN [ok |-> FALSE, data |-> d]
  ELSE LET labels == Range(d.index) \ {row_index}
       IN  [ok |-> FALSE,
            data |-> [d EXCEPT !.index = SelectSeqBy(@, labels),
                               !.values = [c \in DOMAIN @ |-> [l \in labels |-> @[c][l]]]]]

DeleteRow(row_index) ==
  /\ data' = delete_row(row_index, data).data
  /\ UNCHANGED <<point_flags, descriptive_stats, stats_progress, pc, stages, captured,
                 written, run_completed, progress_access, response>>

\* ------------------------------------------------------------- point flags
\* The floor of add_new_column_range_flags: the normal values that must remain.
MinNormalValues == 20

\* point_flags[mask, col_idx] = ... raises when there is no grid, when the
\* frame's boolean row mask has another length than the grid has rows, or when
\* the grid has no such column.
MaskWriteRaises(d, flags, col_idx) ==
  \/ flags = None
  \/ flags.nrows /= Len(d.index)
  \/ col_idx > flags.ncols

\* point_flags[:, col_idx] = flag: the mask left out.
SetFlagsWholeColumn(flags, mask, col_idx, flag) ==
  [flags EXCEPT !.cells = [rc \in DOMAIN @ |-> IF rc[2] = col_idx THEN flag ELSE @[rc]]]

\* point_flags[mask, col_idx] = flag
SetFlags(flags, mask, col_idx, flag) ==
  [flags EXCEPT !.cells =
     [rc \in DOMAIN @ |-> IF rc[2] = col_idx /\ rc[1] \in mask THEN flag ELSE @[rc]]]

\* col_data.isna()
MissingMask(d, c) == { i \in FrameRows(d) : Cell(d, c, i).kind = "nan" }

\* The cells of a numeric column whose text starts with no digit, dot or minus
\* sign: the text of a number always starts with one.
NonNumericMask(d, c) ==
  { i \in FrameRows(d) : d.dtypes[c] = "numeric" /\ Cell(d, c, i).kind = "str" }

\* _update_missing_and_unexpected_flags(col_idx, col)
update_missing_and_unexpected_flags(d, flags, col_idx) ==
  LET col == d.columns[col_idx]
  IN  IF MaskWriteRaises(d, flags, col_idx)
        THEN [raised |-> TRUE, flags |-> flags]
        ELSE [raised |-> FALSE,
              flags |-> SetFlags(SetFlags(flags, MissingMask(d, col), col_idx, "MISSING"),
                                 NonNumericMask(d, col) \ MissingMask(d, col),
                                 col_idx, "UNEXPECTED_TYPE")]

\* The loop of _update_point_flags from column col_idx on.
RECURSIVE update_point_flags_from(_, _, _)
update_point_flags_from(d, flags, col_idx) ==
  IF col_idx > Len(d.columns) THEN [raised |-> FALSE, flags |-> flags]
  ELSE LET u == update_missing_and_unexpected_flags(d, flags, col_idx)
       IN  IF u.raised THEN u ELSE update_point_flags_from(d, u.flags, col_idx + 1)

\* _update_point_flags
update_point_flags(d, flags) ==
  IF d = None THEN [raised |-> FALSE, flags |-> flags]
  ELSE update_point_flags_from(d, flags, 1)

\* The sample restricted to the cells whose flag is still NORMAL.
IQRSampleNormalOnly(d, flags, c) ==
  { i \in FrameRows(d) :
      /\ Cell(d, c, i).kind = "num"
      /\ flags.cells[<<i, IndexOf(d.columns, c)>>] = "NORMAL" }

\* The rows quantile() works on: col_data with its missing values dropped.
IQRSample(d, flags, c) == { i \in FrameRows(d) : Cell(d, c, i).kind = "num" }

\* outlier_mask of a numeric column: q1 - 1.5 * iqr and q3 + 1.5 * iqr, times 8.
OutlierMask(d, flags, c) ==
  LET rows == IQRSample(d, flags, c)
      q1 == Quantile4(d, c, rows, 1)
      q3 == Quantile4(d, c, rows, 3)
      iqr == q3 - q1
  IN  { i \in FrameRows(d) : Outside(Cell(d, c, i), 2 * q1 - 3 * iqr, 2 * q3 + 3 * iqr) }

\* The column loop of _update_numeric_IQR_outlier_flags from col_idx on.
RECURSIVE iqr_outlier_flags_from(_, _, _)
iqr_outlier_flags_from(d, flags, col_idx) ==
  IF col_idx > Len(d.columns) THEN [raised |-> FALSE, flags |-> flags]
  ELSE LET col == d.columns[col_idx]
       IN  IF d.dtypes[col] = "numeric" /\ MissingMask(d, col) /= FrameRows(d)
             THEN IF MaskWriteRaises(d, flags, col_idx)
                    THEN [raised |-> TRUE, flags |-> flags]
                    ELSE iqr_outlier_flags_from(
                           d, SetFlags(flags, OutlierMask(d, flags, col), col_idx, "OUTLIER"),
                           col_idx + 1)
             ELSE iqr_outlier_flags_from(d, flags, col_idx + 1)

\* _update_numeric_IQR_outlier_flags: nothing without data; a missing grid is
\* initialised; the flag counts logged at the end index the grid by the
\* position of every column of the data.
update_numeric_IQR_outlier_flags(d, flags) ==
  IF d = None THEN [raised |-> FALSE, flags |-> flags]
  ELSE LET u == iqr_outlier_flags_from(d, IF flags = None THEN NormalGrid(d) ELSE flags, 1)
       IN  IF u.raised THEN u
           ELSE [raised |-> Len(d.columns) > u.flags.ncols, flags |-> u.flags]

\* An exception leaving add_new_column_range_flags.
Raise(type, message) == [type |-> type, message |-> message]

\* outofbounds_mask: (col < min) | ((col > max) & ~isna); a missing value
\* compares False on both sides.
OutOfBoundsMask(d, c, min_value, max_value) ==
  { i \in FrameRows(d) :
      /\ Cell(d, c, i).kind = "num"
      /\ (Cell(d, c, i).v < min_value \/ Cell(d, c, i).v > max_value) }

\* remaining_normal: total points less the out-of-bounds cells and the cells
\* whose flag is MISSING.
RemainingNormal(d, flags, c, min_value, max_value) ==
  LET col_idx == IndexOf(d.columns, c)
      missing_mask == { i \in 1..flags.nrows : flags.cells[<<i, col_idx>>] = "MISSING" }
  IN  Len(d.index) - Cardinality(OutOfBoundsMask(d, c, min_value, max_value))
        - Cardinality(missing_mask)

\* add_new_column_range_flags without the check of the column's dtype.
add_new_column_range_flags_any_dtype(d, flags, column_name, min_value, max_value) ==
  IF d = None \/ column_name \notin Range(d.columns)
    THEN Raise("ValueError", "Column not found in dataset")
  ELSE IF min_value >= max_value
    THEN Raise("ValueError", "Minimum value must be less than maximum value")
  ELSE IF flags = None
    THEN Raise("TypeError", "NoneType is not subscriptable")
  ELSE IF IndexOf(d.columns, column_name) > flags.ncols
    THEN Raise("IndexError", "index out of bounds")
  ELSE IF RemainingNormal(d, flags, column_name, min_value, max_value) < MinNormalValues
    THEN Raise("ValueError", "Too many values excluded")
  ELSE Raise("AttributeError", "OUTOFBOUNDS")

\* add_new_column_range_flags: the exception the call ends with.  The
\* statement that marks the cells reads DataPointFlag.OUTOFBOUNDS, which the
\* enum does not define, so a call that passes every check ends there, before
\* any cell is written; the grid is the same after every call.
add_new_column_range_flags(d, flags, column_name, min_value, max_value) ==
  IF d = None \/ column_name \notin Range(d.columns)
    THEN Raise("ValueError", "Column not found in dataset")
  ELSE IF min_value >= max_value
    THEN Raise("ValueError", "Minimum value must be less than maximum value")
  ELSE IF d.dtypes[column_name] /= "numeric"
    THEN Raise("ValueError", "Column must be numeric to apply range flags")
  ELSE IF flags = None
    THEN Raise("TypeError", "NoneType is not subscriptable")
  ELSE IF IndexOf(d.columns, column_name) > flags.ncols
    THEN Raise("IndexError", "index out of bounds")
  ELSE IF RemainingNormal(d, flags, column_name, min_value, max_value) < MinNormalValues
    THEN Raise("ValueError", "Too many values excluded")
  ELSE Raise("AttributeError", "OUTOFBOUNDS")

\* The columns and bounds of the range requests.
RangeColumns == {"age", "w", "name", "zz"}

RangeBounds == {0, 4, 120, 500}

\* POST /api/update-column-flags: refused without data, for an unknown column
\* and for min >= max; else add_new_column_range_flags, whose exception
\* becomes the error of a 400 response.
UpdateColumnFlags(column, min_value, max_value) ==
  /\ response' =
       [op |-> "update_column_flags", column |-> column, min_value |-> min_value,
        max_value |-> max_value, success |-> FALSE, status |-> "400",
        error |->
          IF data = None THEN "No data loaded"
          ELSE IF column \notin Range(data.columns) THEN "Column not found in dataset"
          ELSE IF min_value >= max_value
            THEN "Minimum value must be less than maximum value"
          ELSE add_new_column_range_flags(data, point_flags, column, min_value,
                                          max_value).message]
  /\ UNCHANGED <<data, point_flags, descriptive_stats, stats_progress, pc, stages,
                 captured, written, run_completed, progress_access>>

\* POST /api/update-outlier-flags: refused without data; 500 when
\* _update_numeric_IQR_outlier_flags raises.
UpdateOutlierFlags ==
  /\ IF data = None
       THEN /\ response' = [op |-> "update_outlier_flags", success |-> FALSE,
                             status |-> "400"]
            /\ UNCHANGED point_flags
       ELSE LET res == update_numeric_IQR_outlier_flags(data, point_flags)
            IN  /\ point_flags' = res.flags
                /\ response' = [op |-> "update_outlier_flags", success |-> ~ res.raised,
                                 status |-> IF res.raised THEN "500" ELSE "200"]
  /\ UNCHANGED <<data, descriptive_stats, stats_progress, pc, stages, captured,
                 written, run_completed, progress_access>>

\* A call of DataManager._update_point_flags.
UpdatePointFlags ==
  /\ point_flags' = update_point_flags(data, point_flags).flags
  /\ UNCHANGED <<data, descriptive_stats, stats_progress, pc, stages, captured,
                 written, run_completed, progress_access, response>>

\* ------------------------------------------------------------- specifications
Init ==
  /\ data = None
  /\ point_flags = None
  /\ descriptive_stats = None
  /\ stats_progress = InitialProgress
  /\ pc = [r \in Runs |-> NotStarted]
  /\ stages = [r \in Runs |-> <<>>]
  /\ captured = [r \in Runs |-> None]
  /\ written = [r \in Runs |-> 0]
  /\ run_completed = FALSE
  /\ progress_access = LockedWrite
  /\ response = None

Worker(r) ==
  \/ WorkerProgress(r)
  \/ StageEnter(r)
  \/ AnalyzeColumnTypes(r)
  \/ CalculateBasicStats(r)
  \/ AnalyzeDistributions(r)
  \/ DetectOutliers(r)
  \/ CalcFileStats(r)
  \/ CalcQualityMetrics(r)
  \/ CalcColumnStatistics(r)
  \/ CalcStore(r)
  \/ WorkerComplete(r)

LoadSources == CsvFiles \cup HeaderOnlyFiles \cup LoadErrors

\* The engine with every request that touches the pipeline's progress state.
Next ==
  \/ \E src \in LoadSources : LoadData(src)
  \/ Reset
  \/ \E r \in Runs : StartDescriptiveStats(r)
  \/ GetDescriptiveStats
  \/ GetDescriptiveStatsProgress
  \/ \E r \in Runs : Worker(r)

Spec == Init /\ [][Next]_vars

\* The pipeline runs with the requests that write what the runs write.
NextPipeline ==
  \/ \E src \in CsvFiles \cup LoadErrors : LoadData(src)
  \/ Reset
  \/ \E r \in Runs : StartDescriptiveStats(r)
  \/ GetDescriptiveStats
  \/ \E r \in Runs : Worker(r)

SpecPipeline == Init /\ [][NextPipeline]_vars

\* The structural edits of the dataset, with one pipeline run beside them.
NextEdit ==
  \/ \E src \in LoadSources : LoadData(src)
  \/ Reset
  \/ \E names \in SUBSET ColumnNames : DeleteColumns(names)
  \/ \E i \in (-1)..MaxRows : DeleteRow(i)
  \/ GetDescriptiveStats
  \/ StartDescriptiveStats(1)
  \/ Worker(1)

SpecEdit == Init /\ [][NextEdit]_vars

\* The flag requests and the column deletion route on the scenario files.
NextFlags ==
  \/ \E src \in FlagFiles \cup LoadErrors : LoadData(src)
  \/ Reset
  \/ UpdatePointFlags
  \/ UpdateOutlierFlags
  \/ \E column \in RangeColumns, min_value \in RangeBounds, max_value \in RangeBounds :
       UpdateColumnFlags(column, min_value, max_value)
  \/ \E names \in SUBSET {"w", "name", "zz"} : DeleteColumnsAtStart(names)

SpecFlags == Init /\ [][NextFlags]_vars

\* The two classifiers as pure functions of their input.
NextClassify ==
  \/ \E series \in TextSeries \cup NumericSeries \cup DatetimeSeries :
       DetermineColumnType(series)
  \/ \E skew10 \in Moments10, kurt10 \in Moments10, p100 \in PValues100 :
       DetermineDistribution(skew10, kurt10, p100)

SpecClassify == Init /\ [][NextClassify]_vars

\* ------------------------------------------------------------- properties
\* C1: within one pipeline run, from its start request until its worker
\* finishes, every percent the run writes is at least the percent it wrote
\* before, and a run that ends without an exception leaves percent 100 and
\* is_complete true.
C1_PercentNeverDecreases ==
  [][\A r \in Runs :
       /\ written'[r] >= written[r]
       /\ (pc[r] /= Done /\ pc'[r] = Done) =>
            stats_progress' = Progress(100, "Complete", TRUE)]_vars

\* C2: at most one pipeline run is in flight at any time: a start request
\* never puts a second worker beside one that is still executing stages.
C2_OneRunInFlight == Cardinality({ r \in Runs : Active(r) }) <= 1

\* C3: when a stage of a run raises, the error is recorded in the progress
\* state with is_complete true, the run executes no stage afterwards, and a
\* progress state that holds an error is answered by the poll with that
\* error.
C3_ErrorIsTerminal ==
  [][\A r \in Runs :
       /\ (pc[r] /= Failed /\ pc'[r] = Failed) =>
            /\ "error" \in DOMAIN stats_progress'
            /\ stats_progress'.is_complete = TRUE
            /\ ProgressResponse(stats_progress') =
                 [success |-> FALSE, status |-> "500",
                  error |-> stats_progress'.error]
       /\ pc[r] = Failed =>
            /\ pc'[r] = Failed
            /\ stages'[r] = stages[r]
            /\ written'[r] = written[r]]_vars

\* A run has failed and the progress state holds its error.
C3_Witness ==
  \E r \in Runs :
    /\ pc[r] = Failed
    /\ stages[r] /= <<>>
    /\ stats_progress = ErrorProgress

\* C4: the stages of a run are called in the order type analysis, basic
\* statistics, distribution analysis, outlier detection, final aggregation,
\* each at most once; when the run passes the end of its k-th stage the
\* percent it leaves is 20 * k; a run that completes has called all five.
C4_StagesInOrder ==
  [][\A r \in Runs :
       /\ stages'[r] \in StagePrefixes
       /\ pc'[r] \notin {pc[r], Failed} =>
            \A k \in 1..Len(StageOrder) :
              pc[r] = StageEnd[k] =>
                /\ stages[r] = SubSeq(StageOrder, 1, k)
                /\ stats_progress'.percent = 20 * k
                /\ written'[r] = 20 * k
       /\ pc'[r] = Done => stages'[r] = StageOrder]_vars

\* A run has completed after calling the five stages on a loaded dataset.
C4_Witness ==
  \E r \in Runs :
    /\ pc[r] = Done
    /\ stages[r] = StageOrder
    /\ data /= None
    /\ descriptive_stats /= None
    /\ stats_progress = Progress(100, "Complete", TRUE)

\* C5: every read and every write of the progress state, the poll's read
\* included, is made while holding the progress lock.
C5_ProgressAccessLocked == progress_access.locked = TRUE

\* C6: when load_data returns success the progress state is the initial
\* one: percent 0, is_complete false, no error.
C6_LoadLeavesInitialProgress ==
  [][\A src \in LoadSources :
       (LoadData(src) /\ load_data(src).ok) =>
         stats_progress' = InitialProgress]_vars

\* C7: load_data never runs while a pipeline run is in flight.
C7_NoLoadDuringRun ==
  [][(\E src \in LoadSources : LoadData(src)) =>
       \A r \in Runs : ~ Active(r)]_vars

\* C8: when load_data fails, the dataset, the flags, the snapshot and the
\* progress state are exactly what they were before the call.
C8_FailedLoadChangesNothing ==
  [][\A src \in LoadSources :
       (LoadData(src) /\ ~ load_data(src).ok) =>
         UNCHANGED <<data, point_flags, descriptive_stats, stats_progress>>]_vars

\* C9 as stated: the snapshot accessor returns None from construction and
\* from every reset or load_data until a pipeline run has completed.
C9_NoneUntilRunCompletes ==
  ~ run_completed => get_column_descriptive_stats = None

\* C9: the snapshot accessor returns None at construction and right after
\* every reset and every failed load_data; a successful load_data stores the
\* snapshot of the loaded dataset itself, so right after it the accessor
\* returns that snapshot, before any pipeline run.
C9_NoneUntilLoadSucceeds ==
  /\ get_column_descriptive_stats = None
  /\ [][/\ Reset => get_column_descriptive_stats' = None
        /\ \A src \in LoadSources :
             LoadData(src) =>
               IF LoadResults[src].ok
                 THEN get_column_descriptive_stats' =
                        calculate_descriptive_stats(data', None, InitialProgress).stats
                 ELSE get_column_descriptive_stats' = None]_vars

\* load_data alone has stored a snapshot: no run was ever started.
C9_Witness ==
  /\ data /= None
  /\ pc[1] = NotStarted
  /\ ~ run_completed
  /\ get_column_descriptive_stats =
       StoredStats(CalcFrame(FileStats(data), ColumnStatistics(data, Len(data.columns))),
                   data)
  /\ stats_progress = Progress(95, "Finalizing calculations...", FALSE)

\* C10: after any delete_columns or delete_row call, successful or failed,
\* the accessor returns None or a snapshot of the dataset as it now is: its
\* row count, column count and column list are those of the data.
C10_SnapshotFollowsEdits ==
  [][((\E i \in (-1)..MaxRows : DeleteRow(i))
        \/ (\E names \in SUBSET ColumnNames : DeleteColumns(names))) =>
       \/ get_column_descriptive_stats' = None
       \/ /\ data' /= None
          /\ "file_stats" \in descriptive_stats'.keys =>
               descriptive_stats'.file_stats = FileStats(data')
          /\ "column_types" \in descriptive_stats'.keys =>
               /\ descriptive_stats'.column_types.columns = data'.columns
               /\ descriptive_stats'.column_types.ntypes = Len(data'.columns)]_vars

\* C11: a range request whose bounds would leave fewer than 20 NORMAL cells in
\* the column is rejected by the floor check with its validation error, and
\* every cell of the flag grid is as it was.
C11_FloorRejectsRange ==
  [][("op" \in DOMAIN response' /\ response'.op = "update_column_flags") =>
       LET column == response'.column
           min_value == response'.min_value
           max_value == response'.max_value
           col_idx == IndexOf(data.columns, column)
           normal_after ==
             { i \in FrameRows(data) :
                 /\ point_flags.cells[<<i, col_idx>>] = "NORMAL"
                 /\ i \notin OutOfBoundsMask(data, column, min_value, max_value) }
       IN  ( /\ UpdateColumnFlags(column, min_value, max_value)
             /\ data /= None
             /\ point_flags /= None
             /\ column \in Range(data.columns)
             /\ data.dtypes[column] = "numeric"
             /\ min_value < max_value
             /\ Cardinality(normal_after) < MinNormalValues ) =>
             /\ add_new_column_range_flags(data, point_flags, column, min_value,
                                           max_value) =
                  Raise("ValueError", "Too many values excluded")
             /\ point_flags' = point_flags]_vars

\* C12: a range request on an unknown column, on a non-numeric column or with
\* min >= max ends with a validation error (a ValueError of the checks) and
\* leaves the flag grid, the dataset and the snapshot unchanged.
C12_BadRangeRejected ==
  [][("op" \in DOMAIN response' /\ response'.op = "update_column_flags") =>
       LET column == response'.column
           min_value == response'.min_value
           max_value == response'.max_value
       IN  ( /\ UpdateColumnFlags(column, min_value, max_value)
             /\ \/ data = None
                \/ column \notin Range(data.columns)
                \/ data.dtypes[column] /= "numeric"
                \/ min_value >= max_value ) =>
             /\ add_new_column_range_flags(data, point_flags, column, min_value,
                                           max_value).type = "ValueError"
             /\ response'.success = FALSE
             /\ UNCHANGED <<point_flags, data, descriptive_stats>>]_vars

\* A range request on the string column of a loaded file has been refused.
C12_Witness ==
  /\ data /= None
  /\ response /= None
  /\ response.op = "update_column_flags"
  /\ response.column \in Range(data.columns)
  /\ data.dtypes[response.column] = "object"
  /\ response.min_value < response.max_value
  /\ response.error = "Column must be numeric to apply range flags"
  /\ point_flags = NormalGrid(data)

\* C13: a cell flagged MISSING is still flagged MISSING after every IQR
\* outlier marking and every range marking request.
C13_MissingStaysMissing ==
  [][( /\ "op" \in DOMAIN response'
       /\ \/ response'.op = "update_outlier_flags" /\ UpdateOutlierFlags
          \/ /\ response'.op = "update_column_flags"
             /\ UpdateColumnFlags(response'.column, response'.min_value,
                                  response'.max_value) ) =>
       ( point_flags /= None =>
           /\ point_flags' /= None
           /\ \A rc \in DOMAIN point_flags.cells :
                point_flags.cells[rc] = "MISSING" =>
                  point_flags'.cells[rc] = "MISSING" )]_vars

\* The IQR marking has run on a column that holds MISSING cells and has
\* flagged an outlier in it.
C13_Witness ==
  /\ data /= None
  /\ point_flags /= None
  /\ response /= None
  /\ response.op = "update_outlier_flags"
  /\ response.success
  /\ \E rc \in DOMAIN point_flags.cells, rc2 \in DOMAIN point_flags.cells :
       /\ rc[2] = rc2[2]
       /\ point_flags.cells[rc] = "MISSING"
       /\ point_flags.cells[rc2] = "OUTLIER"

\* C14: the range [0, 120] applied to the all-NORMAL numeric column age of 25
\* rows, three of them above 120, succeeds, flags those three cells
\* OUTOFBOUNDS and leaves the other 22 NORMAL.
C14_RangeFlagsThree ==
  [][( /\ "op" \in DOMAIN response'
       /\ response'.op = "update_column_flags"
       /\ UpdateColumnFlags("age", 0, 120)
       /\ data = DataFrame(ScenarioC)
       /\ point_flags = NormalGrid(data) ) =>
       /\ response'.success
       /\ point_flags' /= None
       /\ \A i \in FrameRows(data) :
            point_flags'.cells[<<i, 1>>] =
              IF Cell(data, "age", i).v > 120 THEN "OUTOFBOUNDS" ELSE "NORMAL"]_vars

\* C15: the IQR marking run again on the grid it has just produced, the data
\* unchanged, produces the same grid.
C15_IQRIdempotent ==
  [][( /\ "op" \in DOMAIN response'
       /\ response'.op = "update_outlier_flags"
       /\ UpdateOutlierFlags
       /\ data /= None ) =>
       update_numeric_IQR_outlier_flags(data', point_flags').flags = point_flags']_vars

\* The IQR marking has run on the 25-row file and flagged outliers.
C15_Witness ==
  /\ data /= None
  /\ point_flags /= None
  /\ response /= None
  /\ response.op = "update_outlier_flags"
  /\ response.success
  /\ "w" \in Range(data.columns)
  /\ \E rc \in DOMAIN point_flags.cells :
       /\ rc[2] = IndexOf(data.columns, "w")
       /\ point_flags.cells[rc] = "OUTLIER"

\* C16: on the 100-row file (1..95 and five values of 10000), all NORMAL, the
\* IQR marking flags exactly the five cells holding 10000 as OUTLIER and
\* leaves the other 95 NORMAL.
C16_ScenarioAFlagsFive ==
  [][( /\ "op" \in DOMAIN response'
       /\ response'.op = "update_outlier_flags"
       /\ data = DataFrame(ScenarioA)
       /\ UpdateOutlierFlags
       /\ point_flags = NormalGrid(data) ) =>
       /\ point_flags' /= None
       /\ \A i \in FrameRows(data) :
            point_flags'.cells[<<i, 1>>] =
              IF Cell(data, "x", i).v = 10000 THEN "OUTLIER" ELSE "NORMAL"]_vars

\* The 100-row file is loaded and five of its cells are flagged OUTLIER.
C16_Witness ==
  /\ data = DataFrame(ScenarioA)
  /\ point_flags /= None
  /\ response /= None
  /\ response.op = "update_outlier_flags"
  /\ Cardinality({ rc \in DOMAIN point_flags.cells :
                     point_flags.cells[rc] = "OUTLIER" }) = 5
  /\ Cardinality({ rc \in DOMAIN point_flags.cells :
                     point_flags.cells[rc] = "NORMAL" }) = 95

\* C17: after a successful removal of columns, the column_types entry of the
\* snapshot patched by update_descriptive_stats equals the column_types entry
\* a fresh calculate_descriptive_stats produces on the dataset as it now is,
\* and the patched snapshot holds the same per-column entries.
C17_PatchEqualsRebuild ==
  [][\A names \in SUBSET ColumnNames :
       ( /\ names /= {}
         /\ data /= None
         /\ descriptive_stats /= None
         /\ DeleteColumns(names)
         /\ delete_columns(names, data, descriptive_stats, point_flags,
                           stats_progress).ok ) =>
         LET fresh == calculate_descriptive_stats(data', None, stats_progress').stats
         IN  /\ descriptive_stats'.column_types = fresh.column_types
             /\ fresh.keys \subseteq descriptive_stats'.keys]_vars

\* C18: a delete-columns request naming at least one column the dataset does
\* not have reports failure and leaves the dataset, the flag grid and the
\* snapshot as they were.
C18_UnknownColumnRejected ==
  [][( /\ "op" \in DOMAIN response'
       /\ response'.op = "delete_columns"
       /\ data /= None
       /\ response'.columns \ Range(data.columns) /= {}
       /\ DeleteColumnsAtStart(response'.columns) ) =>
       /\ response'.success = FALSE
       /\ UNCHANGED <<data, point_flags, descriptive_stats>>]_vars

\* A refused request that named an existing column beside an unknown one, with
\* the dataset and its grid still in place.
C18_Witness ==
  /\ "op" \in DOMAIN response
  /\ response.op = "delete_columns"
  /\ response.success = FALSE
  /\ data /= None
  /\ point_flags /= None
  /\ descriptive_stats /= None
  /\ response.columns \cap Range(data.columns) /= {}
  /\ response.columns \ Range(data.columns) /= {}
  /\ {"w", "name"} \subseteq Range(data.columns)

\* C19: whenever a dataset and its flag grid are in place, the grid has one
\* row per dataset row and one column per dataset column.
C19_GridMatchesDataset ==
  (data /= None /\ point_flags /= None) =>
    /\ point_flags.nrows = Len(data.index)
    /\ point_flags.ncols = Len(data.columns)

\* C20: the dataset is present exactly when the flag grid is present.
C20_DatasetIffGrid ==
  (data /= None) <=> (point_flags /= None)

\* C21: a text column with exactly two distinct tokens, neither of them a
\* boolean literal, is classified categorical.
C21_TwoTokensCategorical ==
  ( /\ "op" \in DOMAIN response
    /\ response.op = "determine_column_type"
    /\ response.series.dtype = "object"
    /\ nunique(response.series) = 2
    /\ \A c \in UniqueVals(response.series) :
         StrVal(c) \notin {"true", "false", "low", "high"} ) =>
    response.result = "categorical"

\* C22: the distribution classifier answers normal exactly when the moment
\* pre-filter holds (|skew| < 0.5, |kurtosis| < 2) and the normality test
\* accepts (p > 0.05).
C22_NormalNeedsTest ==
  ( /\ "op" \in DOMAIN response
    /\ response.op = "determine_distribution" ) =>
    LET abs(x) == IF x < 0 THEN -x ELSE x
    IN  (response.result = "normal") <=>
          /\ abs(response.skew10) < 5
          /\ abs(response.kurt10) < 20
          /\ response.p100 > 5

\* C23: with a dataset in place, the per-column loops of a rebuild never
\* abort it: whatever a column's statistics raise, the rebuild goes on to its
\* next step and stores a snapshot.
C23_ColumnErrorsContained ==
  [][\A r \in Runs :
       ( /\ Active(r)
         /\ Program[pc[r]].op = "column_statistics"
         /\ data /= None
         /\ pc'[r] /= pc[r] ) =>
         pc'[r] = pc[r] + 1]_vars

\* C24: after a successful load_data the dataset holds the file's rows and
\* its columns in file order, and the engine's metadata holds file_stats,
\* column_types and data_quality, with file_stats.rows and file_stats.columns
\* the dataset's row and column counts.
C24_LoadFillsMetadata ==
  [][\A src \in LoadSources :
       (LoadData(src) /\ LoadResults[src].ok) =>
         /\ data'.columns = src.columns
         /\ Len(data'.index) = src.rows
         /\ \A c \in Range(src.columns), i \in 1..src.rows :
              data'.values[c][data'.index[i]] = src.values[c][i]
         /\ "keys" \in DOMAIN metadata
         /\ {"file_stats", "column_types", "data_quality"} \subseteq metadata.keys
         /\ metadata.file_stats = FileStats(data')]_vars

C26_CompleteIsStable ==
  [][( /\ stats_progress.is_complete
       /\ ~ (\E r \in Runs : StartDescriptiveStats(r))
       /\ ~ (\E src \in LoadSources : LoadData(src))
       /\ ~ Reset ) =>
       /\ stats_progress'.is_complete
       /\ "percent" \in DOMAIN stats_progress =>
            /\ "percent" \in DOMAIN stats_progress'
            /\ stats_progress'.percent = stats_progress.percent]_vars

\* C27: the later stages of a run recognise the types the type-analysis stage
\* wrote: when the basic-statistics stage returns, every column the list types
\* as NUMERIC or DISCRETE and that has a non-missing value has a
\* distribution_analysis entry, and when the outlier stage returns every such
\* column with a value outside the 1.5 * IQR bounds has an outlier_info entry.
C27_StagesRecogniseTypes ==
  [][\A r \in Runs :
       LET analysed ==
             { c \in Range(data.columns) :
                 /\ descriptive_stats.column_types.types[IndexOf(data.columns, c)]
                      \in {Member("numeric"), Member("discrete")}
                 /\ NonNullRows(data, c) /= {} }
       IN  /\ (CalculateBasicStats(r) /\ pc'[r] = pc[r] + 1) =>
                analysed \subseteq descriptive_stats'.distribution_analysis
           /\ (DetectOutliers(r) /\ pc'[r] = pc[r] + 1) =>
                { c \in analysed : HasIQROutliers(data, c) }
                  \subseteq descriptive_stats'.outlier_info]_vars

\* C28: every step that writes the column_types entry of the snapshot leaves
\* a column_types_list with one entry per dataset column, in dataset column
\* order, and per-type counts that add up to the number of dataset columns.
C28_TypesCoverColumns ==
  [][( /\ descriptive_stats' /= None
       /\ "column_types" \in descriptive_stats'.keys
       /\ data' /= None
       /\ \/ descriptive_stats = None
          \/ descriptive_stats.column_types /= descriptive_stats'.column_types ) =>
       LET ct == descriptive_stats'.column_types
           count(k) == IF k \in DOMAIN ct.counts THEN ct.counts[k] ELSE 0
       IN  /\ ct.ntypes = Len(data'.columns)
           /\ \A i \in 1..Len(data'.columns) :
                LET t == determine_column_type(ColumnSeries(data', data'.columns[i]))
                IN  ct.types[i] \in {t, Member(t)}
           /\ count("numeric") + count("categorical") + count("boolean")
                + count("datetime") + count("ordinal") + count("discrete")
                = Len(data'.columns)]_vars

\* C29: delete_row is all-or-nothing: it returns success with the row gone
\* from the dataset and the flag grid and snapshot in line with it, or it
\* returns failure and the dataset has exactly the rows it had.
C29_DeleteRowAllOrNothing ==
  [][\A i \in (-1)..MaxRows :
       (data /= None /\ DeleteRow(i)) =>
         IF delete_row(i, data).ok
           THEN /\ Range(data'.index) = Range(data.index) \ {i}
                /\ point_flags' /= None => point_flags'.nrows = Len(data'.index)
                /\ descriptive_stats' /= None =>
                     descriptive_stats'.file_stats = FileStats(data')
           ELSE data'.index = data.index]_vars

\* C30: after a successful delete_columns the surviving columns keep their
\* relative order, and every surviving column has, cell for cell, the values
\* and the flags it had before, on a first deletion and on a later one.
C30_SurvivorsUntouched ==
  [][( /\ "op" \in DOMAIN response'
       /\ response'.op = "delete_columns"
       /\ response'.success
       /\ DeleteColumnsAtStart(response'.columns) ) =>
       LET survivors == Range(data.columns) \ response'.columns
       IN  /\ data'.columns = SelectSeqBy(data.columns, survivors)
           /\ data'.index = data.index
           /\ \A c \in survivors :
                /\ data'.values[c] = data.values[c]
                /\ \A i \in FrameRows(data) :
                     point_flags'.cells[<<i, IndexOf(data'.columns, c)>>]
                       = point_flags.cells[<<i, IndexOf(data.columns, c)>>]]_vars

\* A second deletion after the same load: name is deleted when w is already
\* gone, and the surviving column age carries an OUTLIER flag.
C30_Witness ==
  /\ "op" \in DOMAIN response
  /\ response.op = "delete_columns"
  /\ response.success
  /\ response.columns = {"name"}
  /\ data /= None
  /\ data.columns = <<"age">>
  /\ point_flags /= None
  /\ point_flags.ncols = 1
  /\ \E i \in FrameRows(data) : point_flags.cells[<<i, 1>>] = "OUTLIER"

====
